---- MODULE Spec2Model ----
(***************************************************************************)
(* The physiological anomaly-detection pipeline: the POST /ingest handler   *)
(* (api/main.py) with its validator, rate limiter, idempotency cache,      *)
(* relational store and vitals stream, and the stream worker               *)
(* (worker/processor.py) with its sliding windows (worker/windows.py).     *)
(*                                                                         *)
(* Every call the handler makes to the cache, the store or the stream is   *)
(* one atomic step of a request; requests interleave between those calls.  *)
(* Local computation (the comparison of the counter with the ceiling, the  *)
(* building of the payload, the mapping of an exception to a status) is    *)
(* folded into the step of the call that precedes it.                      *)
(***************************************************************************)
EXTENDS Integers, Sequences, FiniteSets, TLC

(* ------------------------------ bounds --------------------------------- *)
\* Number of ingest requests issued in one run of Spec.
MaxRequests == 2
\* Concurrent callers of check_rate_limit in SpecRate.
MaxCallers == 2
\* How far beyond the ceiling SpecRate lets a rate counter grow.
MaxOverflow == 2
\* The validator's wall clock (seconds), fixed during a run.
ClockNow == 1000
\* Failures (kill, failed process_event, failed xack) the worker meets in a run.
MaxFaults == 1
\* How often SpecProcess hands one stream entry to process_event.
MaxDeliveries == 3
\* Length of the stream SpecWindows feeds to the worker.
MaxReadings == 3
\* Readings classified once the 10-minute window is warm.
MaxExtra == 1
\* Readings published while the workers of the group run.
MaxPublished == 2

(* ------------------------- program constants --------------------------- *)
RATE_CEILING == 20
FUTURE_TOLERANCE == 300
\* The route's status_code: every value the handler returns is sent with it.
HTTP_ACCEPTED == 202
HTTP_UNPROCESSABLE == 422
HTTP_TOO_MANY == 429
HTTP_SERVER_ERROR == 500
HTTP_UNAVAILABLE == 503
\* xreadgroup(..., count=10, ...).
BATCH_COUNT == 10
\* SlidingWindow sizes of PatientStateManager, seconds.
W_30S == 30
W_2M == 120
W_10M == 600
\* anomaly_score > 0.2, in thousandths.
HIGH_SCORE == 200
\* The 10-minute window decides the type once it holds more readings than this.
WARM_COUNT == 5
\* THRESHOLD_CROSSED: hr above, spo2 below.
HR_LIMIT == 140
SPO2_LIMIT == 90

(* ------------------------------ readings ------------------------------- *)
Patients == {"pt-1", "pt-2"}

\* A timestamp is an instant (seconds, UTC) together with the UTC offset it
\* was written with; temp is in tenths of a degree.
Vitals(hr, sys, dia, spo2, rr, temp) ==
    [hr |-> hr, bp_sys |-> sys, bp_dia |-> dia, spo2 |-> spo2, rr |-> rr, temp |-> temp]

Reading(pid, sec, off, v) ==
    [patient_id |-> pid, timestamp |-> [sec |-> sec, off |-> off], vitals |-> v]

\* The readings clients send: the normal reading of one patient, the same
\* instant written in another zone, a reading of a second patient with a
\* high heart rate, and a reading with an out-of-range spo2.
Samples ==
    { Reading("pt-1", 1000, 0,    Vitals(72, 120, 80, 98, 16, 368)),
      Reading("pt-1", 1000, 3600, Vitals(72, 120, 80, 98, 16, 368)),
      Reading("pt-2", 1000, 0,    Vitals(180, 120, 80, 98, 16, 368)),
      Reading("pt-1", 1000, 0,    Vitals(72, 120, 80, 110, 16, 368)) }

NoReading == Reading("", 0, 0, Vitals(0, 0, 0, 0, 0, 0))

\* VitalsReading: the Field(ge=, le=) ranges and timestamp_not_future.
FieldsInRange(rd) ==
    /\ Len(rd.patient_id) >= 1 /\ Len(rd.patient_id) <= 50
    /\ rd.vitals.hr >= 30 /\ rd.vitals.hr <= 250
    /\ rd.vitals.bp_sys >= 50 /\ rd.vitals.bp_sys <= 250
    /\ rd.vitals.bp_dia >= 30 /\ rd.vitals.bp_dia <= 150
    /\ rd.vitals.spo2 >= 50 /\ rd.vitals.spo2 <= 100
    /\ rd.vitals.rr >= 4 /\ rd.vitals.rr <= 60
    /\ rd.vitals.temp >= 300 /\ rd.vitals.temp <= 450

\* Mutant: a timestamp exactly at the tolerance is refused.
timestamp_not_futureStrict(ts, now) ==
    IF ts.sec > now THEN ~(ts.sec - now >= FUTURE_TOLERANCE) ELSE TRUE

timestamp_not_future(ts, now) ==
    IF ts.sec > now THEN ~(ts.sec - now > FUTURE_TOLERANCE) ELSE TRUE

Validate(rd, now) == FieldsInRange(rd) /\ timestamp_not_future(rd.timestamp, now)

\* datetime.isoformat(): the wall-clock time of the zone, then the offset.
isoformat(ts) == <<ts.sec + ts.off, ts.off>>

\* get_idempotency_key: sha256 of "patient_id:isoformat", taken as injective.
get_idempotency_key(rd) == <<rd.patient_id, isoformat(rd.timestamp)>>

\* The value a timestamptz column stores and compares: the instant.
EventKey(rd) == <<rd.patient_id, rd.timestamp.sec>>

(* ------------------------------- state --------------------------------- *)
VARIABLES
    reqs,       \* request slot -> the request's position and local variables
    rate,       \* cache: rate_limit:{patient_id} counter (0 = key absent)
    rateTtl,    \* cache: whether the rate key carries an expiry
    idem,       \* cache: the idem:{fingerprint} keys present
    patients,   \* store: patients table (ids)
    rows,       \* store: vitals_events rows
    stream,     \* vitals_stream: the appended entries, oldest first
    admitted,   \* history: per patient, verdicts "admit" in the counter's lifetime
    rejected,   \* history: per patient, verdicts "reject" in the counter's lifetime
    vin,        \* validator on its own: the reading handed to VitalsReading
    vout,       \* validator on its own: "pending", "admitted" or "rejected"
    wpc,        \* per worker: "down", or where main() stands
    batch,      \* per worker: ids of the entries of the xreadgroup reply not yet acked
    reply,      \* per worker: ids of the reply its for loop or its except is working on
    last_delivered, \* consumer group: id of the last entry delivered with ">"
    pending,    \* consumer group: ids delivered and not acknowledged
    patient_states, \* per worker, its memory: patient_id -> PatientStateManager
    anomalies,  \* store: anomalies rows
    model,      \* model.joblib: vitals -> decision_function value, in thousandths
    faults,     \* history: failures the worker met
    processed,  \* history: entry id -> number of process_event calls that returned
    invoked,    \* history: entry id -> number of process_event calls made
    wlog,       \* the lines the workers printed
    group       \* consumer group: whether physio_workers exists on the stream

Min(a, b) == IF a < b THEN a ELSE b
Max(a, b) == IF a > b THEN a ELSE b

validatorVars == <<vin, vout>>

workerVars ==
    <<wpc, batch, reply, last_delivered, pending, patient_states, anomalies, model, faults,
      processed, invoked, wlog, group>>

ingestVars == <<reqs, rate, rateTtl, idem, patients, rows, admitted, rejected>>

vars == <<reqs, rate, rateTtl, idem, patients, rows, stream, admitted, rejected,
          validatorVars, workerVars>>

Slots == 1..Max(MaxRequests, MaxCallers)

Requests == 1..MaxRequests

StepOrder == <<"validate", "rate", "lookup", "commit", "publish", "setkey">>

NewRequest ==
    [pc |-> "new", rd |-> NoReading, current |-> 0, event_id |-> 0, msg_id |-> 0,
     status |-> 0, body |-> "", cause |-> "", did |-> <<>>]

RowsFor(key) == {w \in rows : <<w.patient_id, w.timestamp>> = key}

EntriesFor(key) ==
    {i \in 1..Len(stream) : \E w \in RowsFor(key) : w.id = stream[i].db_id}

\* unique(patient_id, timestamp) on vitals_events.
UniqueViolation(rd) == RowsFor(EventKey(rd)) # {}

\* id serial: the next value of the sequence.
NextEventId == Cardinality(rows) + 1

Finish(q, st, body, cause) ==
    [q EXCEPT !.pc = "done", !.status = st, !.body = body, !.cause = cause]

(* ------------------------------ actions -------------------------------- *)
\* The cache key of a patient's counter: rate_limit:{patient_id}.
RateKey(rd) == rd.patient_id

\* Mutant: the rate limiter runs as a middleware, before the body is validated.
ArriveCountsFirst(r, s) ==
    /\ reqs[r].pc = "new"
    /\ \A j \in 1..(r - 1) : reqs[j].pc # "new"
    /\ LET q == [reqs[r] EXCEPT !.rd = s, !.did = <<"validate">>] IN
       reqs' = [reqs EXCEPT ![r] =
                  IF Validate(s, ClockNow)
                  THEN [q EXCEPT !.pc = "incr"]
                  ELSE Finish(q, HTTP_UNPROCESSABLE, "validation_error", "validation")]
    /\ rate' = [rate EXCEPT ![RateKey(s)] = @ + 1]
    /\ UNCHANGED <<rateTtl, idem, patients, rows, stream, admitted, rejected, validatorVars, workerVars>>

\* A client sends a reading; pydantic validates it before the handler runs.
Arrive(r, s) ==
    /\ reqs[r].pc = "new"
    /\ \A j \in 1..(r - 1) : reqs[j].pc # "new"
    /\ LET q == [reqs[r] EXCEPT !.rd = s, !.did = <<"validate">>] IN
       reqs' = [reqs EXCEPT ![r] =
                  IF Validate(s, ClockNow)
                  THEN [q EXCEPT !.pc = "incr"]
                  ELSE Finish(q, HTTP_UNPROCESSABLE, "validation_error", "validation")]
    /\ UNCHANGED <<rate, rateTtl, idem, patients, rows, stream, admitted, rejected, validatorVars, workerVars>>

\* Mutant: the comparison with the ceiling off by one.
OverCeilingOffByOne(current) == current >= RATE_CEILING

\* check_rate_limit, line 101.
OverCeiling(current) == current > RATE_CEILING

\* Mutant: the HTTPException is built but not raised.
RateVerdictNotRaised(r, q, p) ==
    /\ reqs' = [reqs EXCEPT ![r] = [q EXCEPT !.pc = "lookup", !.current = 0]]
    /\ IF OverCeiling(q.current)
       THEN rejected' = [rejected EXCEPT ![p] = @ + 1] /\ UNCHANGED admitted
       ELSE admitted' = [admitted EXCEPT ![p] = @ + 1] /\ UNCHANGED rejected

\* check_rate_limit returns or raises; its local `current` goes out of scope.
RateVerdict(r, q, p) ==
    IF OverCeiling(q.current)
    THEN /\ reqs' = [reqs EXCEPT ![r] =
                Finish([q EXCEPT !.current = 0], HTTP_TOO_MANY,
                       "Rate limit exceeded for this patient ID", "rate_limit")]
         /\ rejected' = [rejected EXCEPT ![p] = @ + 1]
         /\ UNCHANGED admitted
    ELSE /\ reqs' = [reqs EXCEPT ![r] = [q EXCEPT !.pc = "lookup", !.current = 0]]
         /\ admitted' = [admitted EXCEPT ![p] = @ + 1]
         /\ UNCHANGED rejected

\* check_rate_limit: current = r.incr(key); the comparison with the ceiling
\* follows at once unless the expire call comes first.
RateIncr(r) ==
    /\ reqs[r].pc = "incr"
    /\ LET p == RateKey(reqs[r].rd)
           current == rate[p] + 1
           q == [reqs[r] EXCEPT !.current = current, !.did = Append(@, "rate")] IN
       /\ rate' = [rate EXCEPT ![p] = current]
       /\ IF current = 1
          THEN /\ reqs' = [reqs EXCEPT ![r] = [q EXCEPT !.pc = "expire"]]
               /\ UNCHANGED <<admitted, rejected>>
          ELSE RateVerdict(r, q, p)
    /\ UNCHANGED <<rateTtl, idem, patients, rows, stream, validatorVars, workerVars>>

\* check_rate_limit: r.expire(key, 10) after the first increment.
RateExpire(r) ==
    /\ reqs[r].pc = "expire"
    /\ LET p == RateKey(reqs[r].rd) IN
       /\ rateTtl' = [rateTtl EXCEPT ![p] = rate[p] > 0]
       /\ RateVerdict(r, reqs[r], p)
    /\ UNCHANGED <<rate, idem, patients, rows, stream, validatorVars, workerVars>>

\* Mutant: the test of r.exists inverted.
LookupInverted(r) ==
    /\ reqs[r].pc = "lookup"
    /\ LET q == [reqs[r] EXCEPT !.did = Append(@, "lookup")] IN
       reqs' = [reqs EXCEPT ![r] =
                  IF get_idempotency_key(q.rd) \notin idem
                  THEN Finish(q, HTTP_ACCEPTED, "ignored", "")
                  ELSE [q EXCEPT !.pc = "db"]]
    /\ UNCHANGED <<rate, rateTtl, idem, patients, rows, stream, admitted, rejected, validatorVars, workerVars>>

\* Mutant: the idempotency key is claimed at the lookup, before the commit.
LookupSetsKey(r) ==
    /\ reqs[r].pc = "lookup"
    /\ LET q == [reqs[r] EXCEPT !.did = Append(@, "lookup")] IN
       /\ reqs' = [reqs EXCEPT ![r] =
                  IF get_idempotency_key(q.rd) \in idem
                  THEN Finish(q, HTTP_ACCEPTED, "ignored", "")
                  ELSE [q EXCEPT !.pc = "db"]]
       /\ idem' = idem \cup {get_idempotency_key(q.rd)}
    /\ UNCHANGED <<rate, rateTtl, patients, rows, stream, admitted, rejected, validatorVars, workerVars>>

\* r.exists(idem_key): a hit returns the "ignored" body with the route's status.
Lookup(r) ==
    /\ reqs[r].pc = "lookup"
    /\ LET q == [reqs[r] EXCEPT !.did = Append(@, "lookup")] IN
       reqs' = [reqs EXCEPT ![r] =
                  IF get_idempotency_key(q.rd) \in idem
                  THEN Finish(q, HTTP_ACCEPTED, "ignored", "")
                  ELSE [q EXCEPT !.pc = "db"]]
    /\ UNCHANGED <<rate, rateTtl, idem, patients, rows, stream, admitted, rejected, validatorVars, workerVars>>

\* Mutant: the connection block is left without a commit.
DbCommitNoCommit(r) ==
    /\ reqs[r].pc = "db"
    /\ LET q == reqs[r] IN
       IF UniqueViolation(q.rd)
       THEN reqs' = [reqs EXCEPT ![r] =
                Finish(q, HTTP_SERVER_ERROR, "Database persistence failed", "unique")]
       ELSE reqs' = [reqs EXCEPT ![r] =
                [q EXCEPT !.pc = "xadd", !.event_id = NextEventId,
                          !.did = Append(@, "commit")]]
    /\ UNCHANGED <<rate, rateTtl, idem, patients, rows, stream, admitted, rejected, validatorVars, workerVars>>

\* Mutant: the insert is an upsert that returns the id of the existing row.
DbCommitUpsert(r) ==
    /\ reqs[r].pc = "db"
    /\ LET q == reqs[r] IN
       IF UniqueViolation(q.rd)
       THEN /\ reqs' = [reqs EXCEPT ![r] =
                   [q EXCEPT !.pc = "xadd",
                             !.event_id = (CHOOSE w \in RowsFor(EventKey(q.rd)) : TRUE).id,
                             !.did = Append(@, "commit")]]
            /\ UNCHANGED <<patients, rows>>
       ELSE /\ patients' = patients \cup {q.rd.patient_id}
            /\ rows' = rows \cup {[id |-> NextEventId, patient_id |-> q.rd.patient_id,
                                   timestamp |-> q.rd.timestamp.sec, vitals |-> q.rd.vitals]}
            /\ reqs' = [reqs EXCEPT ![r] =
                   [q EXCEPT !.pc = "xadd", !.event_id = NextEventId,
                             !.did = Append(@, "commit")]]
    /\ UNCHANGED <<rate, rateTtl, idem, stream, admitted, rejected, validatorVars, workerVars>>

\* The transaction of lines 123-154: upsert the patient, insert the event row,
\* commit when the block is left; any psycopg.Error, the unique violation
\* included, rolls both back and becomes a 500.
DbCommit(r) ==
    /\ reqs[r].pc = "db"
    /\ LET q == reqs[r] IN
       IF UniqueViolation(q.rd)
       THEN /\ reqs' = [reqs EXCEPT ![r] =
                   Finish(q, HTTP_SERVER_ERROR, "Database persistence failed", "unique")]
            /\ UNCHANGED <<patients, rows>>
       ELSE /\ patients' = patients \cup {q.rd.patient_id}
            /\ rows' = rows \cup {[id |-> NextEventId, patient_id |-> q.rd.patient_id,
                                   timestamp |-> q.rd.timestamp.sec, vitals |-> q.rd.vitals]}
            /\ reqs' = [reqs EXCEPT ![r] =
                   [q EXCEPT !.pc = "xadd", !.event_id = NextEventId,
                             !.did = Append(@, "commit")]]
    /\ UNCHANGED <<rate, rateTtl, idem, stream, admitted, rejected, validatorVars, workerVars>>

\* Mutant: the connection runs in autocommit, so the patient upsert stays when
\* the event insert fails.
DbErrorAfterUpsert(r) ==
    /\ reqs[r].pc = "db"
    /\ patients' = patients \cup {reqs[r].rd.patient_id}
    /\ reqs' = [reqs EXCEPT ![r] =
           Finish(@, HTTP_SERVER_ERROR, "Database persistence failed", "store")]
    /\ UNCHANGED <<rate, rateTtl, idem, rows, stream, admitted, rejected, validatorVars, workerVars>>

\* The store is unreachable or the statement fails: psycopg.Error, nothing committed.
DbError(r) ==
    /\ reqs[r].pc = "db"
    /\ reqs' = [reqs EXCEPT ![r] =
           Finish(@, HTTP_SERVER_ERROR, "Database persistence failed", "store")]
    /\ UNCHANGED <<rate, rateTtl, idem, patients, rows, stream, admitted, rejected, validatorVars, workerVars>>

\* payload = model_dump(), timestamp as isoformat, db_id; msg_id = r.xadd(...).
Xadd(r) ==
    /\ reqs[r].pc = "xadd"
    /\ LET q == reqs[r]
           payload == [patient_id |-> q.rd.patient_id,
                       timestamp |-> isoformat(q.rd.timestamp),
                       vitals |-> q.rd.vitals, db_id |-> q.event_id] IN
       /\ stream' = Append(stream, payload)
       /\ reqs' = [reqs EXCEPT ![r] =
              [q EXCEPT !.pc = "setex", !.msg_id = Len(stream) + 1,
                        !.did = Append(@, "publish")]]
    /\ UNCHANGED <<rate, rateTtl, idem, patients, rows, admitted, rejected, validatorVars, workerVars>>

\* r.setex(idem_key, 600, "1"), then the 202 "queued" response.
Setex(r) ==
    /\ reqs[r].pc = "setex"
    /\ idem' = idem \cup {get_idempotency_key(reqs[r].rd)}
    /\ reqs' = [reqs EXCEPT ![r] =
           Finish([@ EXCEPT !.did = Append(@, "setkey")], HTTP_ACCEPTED, "queued", "")]
    /\ UNCHANGED <<rate, rateTtl, patients, rows, stream, admitted, rejected, validatorVars, workerVars>>

\* redis.RedisError raised by incr, expire or exists: nothing catches it, the
\* framework answers 500.
CacheErrorUnhandled(r) ==
    /\ reqs[r].pc \in {"incr", "expire", "lookup"}
    /\ reqs' = [reqs EXCEPT ![r] =
           Finish([@ EXCEPT !.current = 0], HTTP_SERVER_ERROR, "Internal Server Error", "cache")]
    /\ UNCHANGED <<rate, rateTtl, idem, patients, rows, stream, admitted, rejected, validatorVars, workerVars>>

\* Mutant: the RedisError is swallowed and the request answered as queued.
StreamErrorSwallowed(r) ==
    /\ reqs[r].pc \in {"xadd", "setex"}
    /\ reqs' = [reqs EXCEPT ![r] =
           Finish(@, HTTP_ACCEPTED, "queued", IF @.pc = "xadd" THEN "stream" ELSE "cache")]
    /\ UNCHANGED <<rate, rateTtl, idem, patients, rows, stream, admitted, rejected, validatorVars, workerVars>>

\* Mutant: the except deletes the event row when the xadd failed.
StreamErrorRollsBack(r) ==
    /\ reqs[r].pc \in {"xadd", "setex"}
    /\ rows' = IF reqs[r].pc = "xadd"
               THEN {w \in rows : w.id # reqs[r].event_id}
               ELSE rows
    /\ reqs' = [reqs EXCEPT ![r] =
           Finish(@, HTTP_UNAVAILABLE, "Stream service unavailable",
                  IF @.pc = "xadd" THEN "stream" ELSE "cache")]
    /\ UNCHANGED <<rate, rateTtl, idem, patients, stream, admitted, rejected, validatorVars, workerVars>>

\* redis.RedisError raised by xadd or setex: caught at line 174, becomes a 503.
StreamError(r) ==
    /\ reqs[r].pc \in {"xadd", "setex"}
    /\ reqs' = [reqs EXCEPT ![r] =
           Finish(@, HTTP_UNAVAILABLE, "Stream service unavailable",
                  IF @.pc = "xadd" THEN "stream" ELSE "cache")]
    /\ UNCHANGED <<rate, rateTtl, idem, patients, rows, stream, admitted, rejected, validatorVars, workerVars>>

\* The API process dies while the request is in flight, after at least one of
\* its calls took effect: no response is sent.
Crash(r) ==
    /\ reqs[r].pc \in {"expire", "lookup", "db", "xadd", "setex"}
    /\ reqs' = [reqs EXCEPT ![r] = Finish([@ EXCEPT !.current = 0], 0, "", "crash")]
    /\ UNCHANGED <<rate, rateTtl, idem, patients, rows, stream, admitted, rejected, validatorVars, workerVars>>

\* The cache drops an idempotency key 600 s after setex.
ExpireIdem(k) ==
    /\ k \in idem
    /\ idem' = idem \ {k}
    /\ UNCHANGED <<reqs, rate, rateTtl, patients, rows, stream, admitted, rejected, validatorVars, workerVars>>

\* The cache drops a rate counter 10 s after expire was called on it.
ExpireRate(p) ==
    /\ rate[p] > 0
    /\ rateTtl[p]
    /\ rate' = [rate EXCEPT ![p] = 0]
    /\ rateTtl' = [rateTtl EXCEPT ![p] = FALSE]
    /\ admitted' = [admitted EXCEPT ![p] = 0]
    /\ rejected' = [rejected EXCEPT ![p] = 0]
    /\ UNCHANGED <<reqs, idem, patients, rows, stream, validatorVars, workerVars>>

(* ------------------------------ the worker ----------------------------- *)
\* The consumers of the group: CONSUMER_NAME is worker-{pid}, one per process.
Workers == {"worker-1", "worker-2"}

\* The worker of a deployment that runs one.
Solo == "worker-1"

\* The vitals the scoring model is asked about.
SampleVitals == {s.vitals : s \in {x \in Samples : Validate(x, ClockNow)}}

\* A model file is the decision_function value of each vector, in thousandths;
\* predict is -1 exactly when decision_function is negative.
\* A model that flags nothing.
NormalModel == [v \in SampleVitals |-> 100]

\* A model that flags the reading with the high heart rate.
TrainedModel == [v \in SampleVitals |-> IF v.hr > 140 THEN -304 ELSE 100]

\* The model files a worker may find.
Models == {NormalModel, TrainedModel}

\* joblib.load raises: there is no model file to load.
NoModel == <<>>

EntryIds == 1..Max(Max(MaxRequests, MaxReadings), WARM_COUNT + MaxExtra)

\* datetime.fromisoformat: wall-clock time and offset back to the instant.
fromisoformat(iso) == [sec |-> iso[1] - iso[2], off |-> iso[2]]

\* The reading dict process_event builds from the entry's fields.
Observed(entry) ==
    [timestamp |-> fromisoformat(entry.timestamp), vitals |-> entry.vitals]

\* Mutant: every entry older than the cutoff is dropped, wherever it stands.
pruneEverywhere(events, cutoff) ==
    SelectSeq(events, LAMBDA e : e.timestamp.sec >= cutoff)

\* SlidingWindow._prune: pop from the left while the head is older than the cutoff.
RECURSIVE prune(_, _)
prune(events, cutoff) ==
    IF events # <<>> /\ Head(events).timestamp.sec < cutoff
    THEN prune(Tail(events), cutoff)
    ELSE events

\* Mutant: a reading older than the tail is not taken into the window.
add_eventInOrder(events, size_seconds, reading) ==
    IF events # <<>> /\ reading.timestamp.sec < events[Len(events)].timestamp.sec
    THEN events
    ELSE prune(Append(events, reading), reading.timestamp.sec - size_seconds)

\* SlidingWindow.add_event: append, then prune against the appended timestamp.
add_event(events, size_seconds, reading) ==
    prune(Append(events, reading), reading.timestamp.sec - size_seconds)

NewPatientState == [w_30s |-> <<>>, w_2m |-> <<>>, w_10m |-> <<>>]

\* PatientStateManager.add_reading.
add_reading(state, reading) ==
    [w_30s |-> add_event(state.w_30s, W_30S, reading),
     w_2m  |-> add_event(state.w_2m, W_2M, reading),
     w_10m |-> add_event(state.w_10m, W_10M, reading)]

RECURSIVE Sum(_)
Sum(xs) == IF xs = <<>> THEN 0 ELSE Head(xs) + Sum(Tail(xs))

Abs(x) == IF x < 0 THEN 0 - x ELSE x

\* round(mean, 2), in hundredths (a tie is rounded up).
Round2(total, n) == (200 * total + n) \div (2 * n)

\* SlidingWindow.get_aggregates; count 0 stands for None.
get_aggregates(events) ==
    IF events = <<>>
    THEN [count |-> 0, end_time |-> 0, avg_hr |-> 0, avg_spo2 |-> 0]
    ELSE [count |-> Len(events),
          end_time |-> events[Len(events)].timestamp.sec,
          avg_hr |-> Round2(Sum([i \in 1..Len(events) |-> events[i].vitals.hr]), Len(events)),
          avg_spo2 |-> Round2(Sum([i \in 1..Len(events) |-> events[i].vitals.spo2]), Len(events))]

\* Mutant: the deviation of the oxygen saturation is looked at first.
anomaly_typeDropFirst(reading, w_10m, anomaly_score) ==
    IF w_10m.count > WARM_COUNT
    THEN IF Abs(100 * reading.vitals.spo2 - w_10m.avg_spo2) > 500 THEN "drop"
         ELSE IF Abs(100 * reading.vitals.hr - w_10m.avg_hr) > 2000 THEN "spike"
         ELSE IF anomaly_score > HIGH_SCORE THEN "multi-signal"
         ELSE "drift"
    ELSE "spike"

\* process_event, lines 104-117: the anomaly type from the 10-minute window.
anomaly_type(reading, w_10m, anomaly_score) ==
    IF w_10m.count > WARM_COUNT
    THEN IF Abs(100 * reading.vitals.hr - w_10m.avg_hr) > 2000 THEN "spike"
         ELSE IF Abs(100 * reading.vitals.spo2 - w_10m.avg_spo2) > 500 THEN "drop"
         ELSE IF anomaly_score > HIGH_SCORE THEN "multi-signal"
         ELSE "drift"
    ELSE "spike"

\* The state a worker holds for the entry's patient, created on first sight.
StateOf(w, pid) ==
    IF pid \in DOMAIN patient_states[w] THEN patient_states[w][pid] ELSE NewPatientState

\* The worker's patient_states after state.add_reading(reading) for the entry.
Windowed(w, entry) ==
    [p \in DOMAIN patient_states[w] \cup {entry.patient_id} |->
        IF p = entry.patient_id
        THEN add_reading(StateOf(w, p), Observed(entry))
        ELSE patient_states[w][p]]

is_anomaly(entry) == model[entry.vitals] < 0

\* anomaly_score = -score_raw, in thousandths.
AnomalyScore(entry) == 0 - model[entry.vitals]

\* The format {anomaly_score:.2f} of a positive score: hundredths.
format2f(score) == (score + 5) \div 10

\* A line the worker prints: the event name and its key=value fields.
LogLine(event, pid, what, number, iso) ==
    [event |-> event, patient_id |-> pid, what |-> what, value |-> number,
     timestamp |-> iso]

\* Mutant: the limits themselves count as crossed.
ThresholdLinesInclusive(entry) ==
    (IF entry.vitals.hr >= HR_LIMIT
     THEN {LogLine("THRESHOLD_CROSSED", entry.patient_id, "hr", entry.vitals.hr,
                   isoformat(Observed(entry).timestamp))}
     ELSE {})
    \cup
    (IF entry.vitals.spo2 <= SPO2_LIMIT
     THEN {LogLine("THRESHOLD_CROSSED", entry.patient_id, "spo2", entry.vitals.spo2,
                   isoformat(Observed(entry).timestamp))}
     ELSE {})

\* process_event, lines 60-65: the THRESHOLD_CROSSED lines of a reading.
ThresholdLines(entry) ==
    (IF entry.vitals.hr > HR_LIMIT
     THEN {LogLine("THRESHOLD_CROSSED", entry.patient_id, "hr", entry.vitals.hr,
                   isoformat(Observed(entry).timestamp))}
     ELSE {})
    \cup
    (IF entry.vitals.spo2 < SPO2_LIMIT
     THEN {LogLine("THRESHOLD_CROSSED", entry.patient_id, "spo2", entry.vitals.spo2,
                   isoformat(Observed(entry).timestamp))}
     ELSE {})

\* Mutant: the line carries the time of printing, not the reading's.
AnomalyLineWallClock(a_type, entry) ==
    LogLine("ANOMALY_DETECTED", entry.patient_id, a_type,
            format2f(AnomalyScore(entry)), isoformat([sec |-> ClockNow + 1, off |-> 0]))

\* Line 132: the ANOMALY_DETECTED line of a flagged reading.
AnomalyLine(a_type, entry) ==
    LogLine("ANOMALY_DETECTED", entry.patient_id, a_type,
            format2f(AnomalyScore(entry)), isoformat(Observed(entry).timestamp))

\* Line 175: the line of the except at the loop boundary.
ErrorLine == LogLine("Error in loop", "", "", 0, <<0, 0>>)

\* Line 142: the line of a model that cannot be loaded.
CriticalLine == LogLine("CRITICAL", "", "", 0, <<0, 0>>)

\* anomalies.id serial: the next value of the sequence. The table has no
\* unique index besides its key.
NextAnomalyId == Cardinality(anomalies) + 1

\* The a_type of lines 104-117 for the entry, its reading already in the window.
TypeOf(w, entry) ==
    anomaly_type(Observed(entry),
                 get_aggregates(Windowed(w, entry)[entry.patient_id].w_10m),
                 AnomalyScore(entry))

\* The row of the INSERT INTO anomalies of lines 119-131.
AnomalyRow(w, entry) ==
    [id |-> NextAnomalyId,
     patient_id |-> entry.patient_id,
     anomaly_type |-> TypeOf(w, entry),
     score |-> AnomalyScore(entry),
     timestamp |-> Observed(entry).timestamp.sec,
     details |-> entry.vitals]

\* Mutant: a reading over a limit is written as an anomaly as well.
process_eventOnThreshold(w, i) ==
    /\ patient_states' = [patient_states EXCEPT ![w] = Windowed(w, stream[i])]
    /\ invoked' = [invoked EXCEPT ![i] = @ + 1]
    /\ wlog' = wlog \cup ThresholdLines(stream[i])
                    \cup (IF is_anomaly(stream[i])
                          THEN {AnomalyLine(TypeOf(w, stream[i]), stream[i])}
                          ELSE {})
    /\ anomalies' = IF is_anomaly(stream[i]) \/ ThresholdLines(stream[i]) # {}
                    THEN anomalies \cup {AnomalyRow(w, stream[i])}
                    ELSE anomalies

\* process_event returning normally for entry i: the windows take the
\* reading, the threshold lines are printed and, when the model flags it, the
\* anomaly row is inserted, its line printed and the row committed as the
\* connection block is left.
process_event(w, i) ==
    /\ patient_states' = [patient_states EXCEPT ![w] = Windowed(w, stream[i])]
    /\ invoked' = [invoked EXCEPT ![i] = @ + 1]
    /\ wlog' = wlog \cup ThresholdLines(stream[i])
                    \cup (IF is_anomaly(stream[i])
                          THEN {AnomalyLine(TypeOf(w, stream[i]), stream[i])}
                          ELSE {})
    /\ anomalies' = IF is_anomaly(stream[i])
                    THEN anomalies \cup {AnomalyRow(w, stream[i])}
                    ELSE anomalies

\* Mutant: the store is emptied when the worker starts.
WorkerStartCleansDb(w) ==
    /\ wpc[w] = "down"
    /\ model # NoModel
    /\ wpc' = [wpc EXCEPT ![w] = "read"]
    /\ group' = TRUE
    /\ rows' = {}
    /\ UNCHANGED <<reqs, rate, rateTtl, idem, patients, admitted, rejected, stream,
                   validatorVars, batch, reply, last_delivered, pending, patient_states,
                   anomalies, model, faults, processed, invoked, wlog>>

\* Mutant: the group is destroyed and created again at id 0 on every start.
WorkerStartResetsGroup(w) ==
    /\ wpc[w] = "down"
    /\ model # NoModel
    /\ wpc' = [wpc EXCEPT ![w] = "read"]
    /\ group' = TRUE
    /\ last_delivered' = 0
    /\ pending' = {}
    /\ UNCHANGED <<ingestVars, stream, validatorVars, batch, reply, patient_states,
                   anomalies, model, faults, processed, invoked, wlog>>

\* main() up to the loop: the model is loaded, the pool opened, the group
\* created at id 0 unless it exists (BUSYGROUP is ignored).
WorkerStart(w) ==
    /\ wpc[w] = "down"
    /\ model # NoModel
    /\ wpc' = [wpc EXCEPT ![w] = "read"]
    /\ group' = TRUE
    /\ UNCHANGED <<ingestVars, stream, validatorVars, batch, reply, last_delivered, pending,
                   patient_states, anomalies, model, faults, processed, invoked, wlog>>

\* Mutant: the except of the model load prints and main() goes on.
WorkerStartFailsGoesOn(w) ==
    /\ wpc[w] = "down"
    /\ model = NoModel
    /\ wpc' = [wpc EXCEPT ![w] = "read"]
    /\ group' = TRUE
    /\ wlog' = wlog \cup {CriticalLine}
    /\ UNCHANGED <<ingestVars, stream, validatorVars, batch, reply, last_delivered, pending,
                   patient_states, anomalies, model, faults, processed, invoked>>

\* main(), lines 138-143: joblib.load raises, the except prints and returns;
\* the process ends before the pool is opened or the group created.
WorkerStartFails(w) ==
    /\ wpc[w] = "down"
    /\ model = NoModel
    /\ wpc' = [wpc EXCEPT ![w] = "exited"]
    /\ wlog' = wlog \cup {CriticalLine}
    /\ UNCHANGED <<ingestVars, stream, validatorVars, batch, reply, last_delivered, pending,
                   patient_states, anomalies, model, faults, processed, invoked, group>>

\* The ids xreadgroup(">", count=10) delivers: the entries after the last
\* delivered one, ten at most.
NewEntries == (last_delivered + 1)..Min(Len(stream), last_delivered + BATCH_COUNT)

\* Mutant: the worker first claims what is pending (consumer recovery), then
\* reads what is new.
ReadClaimsPending(w) ==
    /\ wpc[w] = "read"
    /\ pending \cup NewEntries # {}
    /\ batch' = [batch EXCEPT ![w] =
                    [k \in 1..Cardinality(pending \cup NewEntries) |->
                        CHOOSE i \in pending \cup NewEntries :
                            Cardinality({j \in pending \cup NewEntries : j < i}) = k - 1]]
    /\ reply' = [reply EXCEPT ![w] = batch'[w]]
    /\ pending' = pending \cup NewEntries
    /\ last_delivered' = last_delivered + Cardinality(NewEntries)
    /\ wpc' = [wpc EXCEPT ![w] = "process"]
    /\ UNCHANGED <<ingestVars, stream, validatorVars, patient_states, anomalies,
                   model, faults, processed, invoked, wlog, group>>

\* entries = r.xreadgroup(GROUP_NAME, CONSUMER_NAME, {STREAM_KEY: ">"}, count=10):
\* the never-delivered entries enter the pending list; an empty reply changes
\* nothing.
Read(w) ==
    /\ wpc[w] = "read"
    /\ NewEntries # {}
    /\ batch' = [batch EXCEPT ![w] = [k \in 1..Cardinality(NewEntries) |-> last_delivered + k]]
    /\ reply' = [reply EXCEPT ![w] = [k \in 1..Cardinality(NewEntries) |-> last_delivered + k]]
    /\ pending' = pending \cup NewEntries
    /\ last_delivered' = last_delivered + Cardinality(NewEntries)
    /\ wpc' = [wpc EXCEPT ![w] = "process"]
    /\ UNCHANGED <<ingestVars, stream, validatorVars, patient_states, anomalies,
                   model, faults, processed, invoked, wlog, group>>

\* xreadgroup raises redis.RedisError: the except of line 174 prints and the
\* worker sleeps a second.
ReadFail(w) ==
    /\ wpc[w] = "read"
    /\ faults < MaxFaults
    /\ faults' = faults + 1
    /\ wlog' = wlog \cup {ErrorLine}
    /\ wpc' = [wpc EXCEPT ![w] = "backoff"]
    /\ UNCHANGED <<ingestVars, stream, validatorVars, batch, reply, last_delivered, pending,
                   patient_states, anomalies, model, processed, invoked, group>>

\* await asyncio.sleep(1) of line 176 returns: the loop reads again.
Wake(w) ==
    /\ wpc[w] = "backoff"
    /\ wpc' = [wpc EXCEPT ![w] = "read"]
    /\ reply' = [reply EXCEPT ![w] = <<>>]
    /\ UNCHANGED <<ingestVars, stream, validatorVars, batch, last_delivered, pending,
                   patient_states, anomalies, model, faults, processed, invoked,
                   wlog, group>>

\* await process_event(data, model) for the next message of the reply.
ProcessOk(w) ==
    /\ wpc[w] = "process"
    /\ model # NoModel
    /\ process_event(w, Head(batch[w]))
    /\ processed' = [processed EXCEPT ![Head(batch[w])] = @ + 1]
    /\ wpc' = [wpc EXCEPT ![w] = "ack"]
    /\ UNCHANGED <<ingestVars, stream, validatorVars, batch, reply, last_delivered, pending,
                   model, faults, group>>

\* What a failed process_event printed: the threshold lines, and the
\* ANOMALY_DETECTED line when the failure is the commit of a flagged reading.
FailedLines(w, entry, late) ==
    ThresholdLines(entry)
    \cup (IF late THEN {AnomalyLine(TypeOf(w, entry), entry)} ELSE {})
    \cup {ErrorLine}

\* Mutant: the exception is caught per message and the message acknowledged.
ProcessFailAcks(w) ==
    /\ wpc[w] = "process"
    /\ model # NoModel
    /\ faults < MaxFaults
    /\ faults' = faults + 1
    /\ patient_states' = [patient_states EXCEPT ![w] = Windowed(w, stream[Head(batch[w])])]
    /\ invoked' = [invoked EXCEPT ![Head(batch[w])] = @ + 1]
    /\ \E late \in {FALSE, is_anomaly(stream[Head(batch[w])])} :
          wlog' = wlog \cup FailedLines(w, stream[Head(batch[w])], late)
    /\ pending' = pending \ {Head(batch[w])}
    /\ batch' = [batch EXCEPT ![w] = <<>>]
    /\ UNCHANGED reply
    /\ wpc' = [wpc EXCEPT ![w] = "backoff"]
    /\ UNCHANGED <<ingestVars, stream, validatorVars, last_delivered, anomalies,
                   model, processed, group>>

\* Mutant: the exception is caught inside the for loop, which goes on with
\* the next message of the reply.
ProcessFailSkips(w) ==
    /\ wpc[w] = "process"
    /\ model # NoModel
    /\ faults < MaxFaults
    /\ faults' = faults + 1
    /\ patient_states' = [patient_states EXCEPT ![w] = Windowed(w, stream[Head(batch[w])])]
    /\ invoked' = [invoked EXCEPT ![Head(batch[w])] = @ + 1]
    /\ \E late \in {FALSE, is_anomaly(stream[Head(batch[w])])} :
          wlog' = wlog \cup FailedLines(w, stream[Head(batch[w])], late)
    /\ batch' = [batch EXCEPT ![w] = Tail(batch[w])]
    /\ reply' = [reply EXCEPT ![w] = IF Tail(batch[w]) = <<>> THEN <<>> ELSE @]
    /\ wpc' = [wpc EXCEPT ![w] = IF Tail(batch[w]) = <<>> THEN "read" ELSE "process"]
    /\ UNCHANGED <<ingestVars, stream, validatorVars, last_delivered, pending,
                   anomalies, model, processed, group>>

\* Mutant: an exception of process_event is not caught and ends main().
ProcessFailExits(w) ==
    /\ wpc[w] = "process"
    /\ model # NoModel
    /\ faults < MaxFaults
    /\ faults' = faults + 1
    /\ patient_states' = [patient_states EXCEPT ![w] = <<>>]
    /\ invoked' = [invoked EXCEPT ![Head(batch[w])] = @ + 1]
    /\ \E late \in {FALSE, is_anomaly(stream[Head(batch[w])])} :
          wlog' = wlog \cup (FailedLines(w, stream[Head(batch[w])], late) \ {ErrorLine})
    /\ batch' = [batch EXCEPT ![w] = <<>>]
    /\ reply' = [reply EXCEPT ![w] = <<>>]
    /\ wpc' = [wpc EXCEPT ![w] = "exited"]
    /\ UNCHANGED <<ingestVars, stream, validatorVars, last_delivered, pending,
                   anomalies, model, processed, group>>

\* process_event raises after add_reading (the scorer, the pool, the insert
\* or the commit fails, nothing is committed): the except of line 174 ends
\* the pass over the reply, prints, sleeps a second, and the loop goes on with
\* the next xreadgroup.
ProcessFail(w) ==
    /\ wpc[w] = "process"
    /\ model # NoModel
    /\ faults < MaxFaults
    /\ faults' = faults + 1
    /\ patient_states' = [patient_states EXCEPT ![w] = Windowed(w, stream[Head(batch[w])])]
    /\ invoked' = [invoked EXCEPT ![Head(batch[w])] = @ + 1]
    /\ \E late \in {FALSE, is_anomaly(stream[Head(batch[w])])} :
          wlog' = wlog \cup FailedLines(w, stream[Head(batch[w])], late)
    /\ batch' = [batch EXCEPT ![w] = <<>>]
    /\ UNCHANGED reply
    /\ wpc' = [wpc EXCEPT ![w] = "backoff"]
    /\ UNCHANGED <<ingestVars, stream, validatorVars, last_delivered, pending,
                   anomalies, model, processed, group>>

\* r.xack(STREAM_KEY, GROUP_NAME, msg_id), then the next message of the reply.
Ack(w) ==
    /\ wpc[w] = "ack"
    /\ pending' = pending \ {Head(batch[w])}
    /\ batch' = [batch EXCEPT ![w] = Tail(batch[w])]
    /\ reply' = [reply EXCEPT ![w] = IF Tail(batch[w]) = <<>> THEN <<>> ELSE @]
    /\ wpc' = [wpc EXCEPT ![w] = IF Tail(batch[w]) = <<>> THEN "read" ELSE "process"]
    /\ UNCHANGED <<ingestVars, stream, validatorVars, last_delivered, patient_states,
                   anomalies, model, faults, processed, invoked, wlog, group>>

\* xack raises redis.RedisError: caught at line 174 like any other exception.
AckFail(w) ==
    /\ wpc[w] = "ack"
    /\ faults < MaxFaults
    /\ faults' = faults + 1
    /\ wlog' = wlog \cup {ErrorLine}
    /\ batch' = [batch EXCEPT ![w] = <<>>]
    /\ UNCHANGED reply
    /\ wpc' = [wpc EXCEPT ![w] = "backoff"]
    /\ UNCHANGED <<ingestVars, stream, validatorVars, last_delivered, pending,
                   patient_states, anomalies, model, processed, invoked, group>>

\* The worker process is killed: its memory (the reply, patient_states) is
\* gone, the group's cursor and pending list stay in the stream service.
Kill(w) ==
    /\ wpc[w] \in {"read", "process", "ack", "backoff"}
    /\ faults < MaxFaults
    /\ faults' = faults + 1
    /\ wpc' = [wpc EXCEPT ![w] = "down"]
    /\ batch' = [batch EXCEPT ![w] = <<>>]
    /\ reply' = [reply EXCEPT ![w] = <<>>]
    /\ patient_states' = [patient_states EXCEPT ![w] = <<>>]
    /\ UNCHANGED <<ingestVars, stream, validatorVars, last_delivered, pending,
                   anomalies, model, processed, invoked, wlog, group>>

\* A shutdown signal reaches the worker. main() installs no handler and its
\* loop tests no flag: SIGTERM ends the process, SIGINT cancels main() at the
\* call it stands in (lines 178-182 swallow the KeyboardInterrupt). The reply
\* in hand is dropped as it is.
Shutdown(w) ==
    /\ wpc[w] \in {"read", "process", "ack", "backoff"}
    /\ wpc' = [wpc EXCEPT ![w] = "stopped"]
    /\ batch' = [batch EXCEPT ![w] = <<>>]
    /\ reply' = [reply EXCEPT ![w] = <<>>]
    /\ patient_states' = [patient_states EXCEPT ![w] = <<>>]
    /\ UNCHANGED <<ingestVars, stream, validatorVars, last_delivered, pending,
                   anomalies, model, faults, processed, invoked, wlog, group>>

\* The validator on its own has not been asked.
ValidatorIdle == vin = NoReading /\ vout = ""

\* No worker is running, there is no group and the anomalies table is empty.
WorkerIdle ==
    /\ wpc = [w \in Workers |-> "down"]
    /\ batch = [w \in Workers |-> <<>>]
    /\ reply = [w \in Workers |-> <<>>]
    /\ group = FALSE
    /\ last_delivered = 0
    /\ pending = {}
    /\ patient_states = [w \in Workers |-> <<>>]
    /\ anomalies = {}
    /\ wlog = {}
    /\ faults = 0
    /\ processed = [i \in EntryIds |-> 0]
    /\ invoked = [i \in EntryIds |-> 0]

(* --------------------------- specifications ---------------------------- *)
\* A patient whose counter the API finds in the cache when it starts.
BusyPatient == "pt-1"

\* The API starts against a cache that outlives it: the counter of the busy
\* patient is either absent or one short of the ceiling (nineteen attempts in
\* the running window, each refused by an unavailable store); the other
\* counters are absent and the tables are empty.
Init ==
    /\ reqs = [r \in Slots |-> NewRequest]
    /\ rate \in {f \in [Patients -> {0, RATE_CEILING - 1}] :
                    \A p \in Patients \ {BusyPatient} : f[p] = 0}
    /\ rateTtl = [p \in Patients |-> rate[p] > 0]
    /\ admitted = [p \in Patients |-> Min(rate[p], RATE_CEILING)]
    /\ rejected = [p \in Patients |-> 0]
    /\ idem = {}
    /\ patients = {}
    /\ rows = {}
    /\ stream = <<>>
    /\ ValidatorIdle
    /\ WorkerIdle
    /\ model = NormalModel

Next ==
    \/ \E r \in Requests, s \in Samples : Arrive(r, s)
    \/ \E r \in Slots : RateIncr(r)
    \/ \E r \in Slots : RateExpire(r)
    \/ \E r \in Slots : Lookup(r)
    \/ \E r \in Slots : DbCommit(r)
    \/ \E r \in Slots : DbError(r)
    \/ \E r \in Slots : Xadd(r)
    \/ \E r \in Slots : Setex(r)
    \/ \E r \in Slots : CacheErrorUnhandled(r)
    \/ \E r \in Slots : StreamError(r)
    \/ \E r \in Slots : Crash(r)
    \/ \E k \in idem : ExpireIdem(k)
    \/ \E p \in Patients : ExpireRate(p)

Spec == Init /\ [][Next]_vars

(* ---------------------- the rate limiter on its own -------------------- *)
\* SpecRate runs check_rate_limit from an empty cache until the counters pass
\* the ceiling; what the handler does after check_rate_limit returned touches
\* no rate key and is one step here.
Callers == 1..MaxCallers

RateSamples == {s \in Samples : s.timestamp.off = 0}

MaxCount == RATE_CEILING + MaxOverflow

\* Lines 117-179 for a caller that check_rate_limit let through, or the 4xx
\* response for one it did not: the request ends and the slot is free again.
Retire(r) ==
    /\ reqs[r].pc \in {"lookup", "done"}
    /\ reqs' = [reqs EXCEPT ![r] = NewRequest]
    /\ UNCHANGED <<rate, rateTtl, idem, patients, rows, stream, admitted, rejected, validatorVars, workerVars>>

InitRate ==
    /\ reqs = [r \in Slots |-> NewRequest]
    /\ rate = [p \in Patients |-> 0]
    /\ rateTtl = [p \in Patients |-> FALSE]
    /\ admitted = [p \in Patients |-> 0]
    /\ rejected = [p \in Patients |-> 0]
    /\ idem = {}
    /\ patients = {}
    /\ rows = {}
    /\ stream = <<>>
    /\ ValidatorIdle
    /\ WorkerIdle
    /\ model = NormalModel

NextRate ==
    \/ \E r \in Callers, s \in RateSamples : Arrive(r, s)
    \/ \E r \in Callers :
          /\ reqs[r].pc = "incr"
          /\ rate[RateKey(reqs[r].rd)] < MaxCount
          /\ RateIncr(r)
    \/ \E r \in Callers : RateExpire(r)
    \/ \E r \in Callers : Retire(r)
    \/ \E p \in Patients : ExpireRate(p)

SpecRate == InitRate /\ [][NextRate]_vars

(* ------------------------- the validator on its own -------------------- *)
\* Patient ids of length 1, 50 and 51.
ShortId == "p"
LongId == "p2345678901234567890123456789012345678901234567890"
TooLongId == "p23456789012345678901234567890123456789012345678901"

\* The two ends of a range and their neighbours outside.
Around(lo, hi) == {lo - 1, lo, hi, hi + 1}

\* Readings with every field at or next to an end of its range and the
\* timestamp around the tolerance.
Candidates ==
    { Reading(pid, ClockNow + d, 0, Vitals(hr, sys, dia, spo2, rr, temp)) :
        pid \in {"", ShortId, LongId, TooLongId},
        d \in {0 - 1, FUTURE_TOLERANCE - 1, FUTURE_TOLERANCE, FUTURE_TOLERANCE + 1},
        hr \in Around(30, 250), sys \in Around(50, 250), dia \in Around(30, 150),
        spo2 \in Around(50, 100), rr \in Around(4, 60), temp \in Around(300, 450) }

\* Nothing has been sent to the API and the cache is empty.
IngestIdle ==
    /\ reqs = [r \in Slots |-> NewRequest]
    /\ rate = [p \in Patients |-> 0]
    /\ rateTtl = [p \in Patients |-> FALSE]
    /\ admitted = [p \in Patients |-> 0]
    /\ rejected = [p \in Patients |-> 0]
    /\ idem = {}
    /\ patients = {}
    /\ rows = {}
    /\ stream = <<>>

\* VitalsReading(**body): pydantic runs the field constraints and the
\* timestamp validator and either builds the reading or raises.
ValidateReading ==
    /\ vout = "pending"
    /\ vout' = IF Validate(vin, ClockNow) THEN "admitted" ELSE "rejected"
    /\ UNCHANGED <<vin, ingestVars, stream, workerVars>>

InitValidate ==
    /\ vin \in Candidates
    /\ vout = "pending"
    /\ IngestIdle
    /\ WorkerIdle
    /\ model = NormalModel

NextValidate == ValidateReading

SpecValidate == InitValidate /\ [][NextValidate]_vars

(* --------------------- ingest and worker, end to end ------------------- *)
\* SpecPipe runs the ingest handler with the cache, the store and the stream
\* up (its calls interleave, none fails) next to one worker with the trained
\* model that is started, fails and is killed at any point.
IngestStep ==
    \/ \E r \in Requests, s \in Samples : Arrive(r, s)
    \/ \E r \in Requests : RateIncr(r)
    \/ \E r \in Requests : RateExpire(r)
    \/ \E r \in Requests : Lookup(r)
    \/ \E r \in Requests : DbCommit(r)
    \/ \E r \in Requests : Xadd(r)
    \/ \E r \in Requests : Setex(r)

WorkerStep == WorkerStart(Solo) \/ Read(Solo) \/ ProcessOk(Solo) \/ Ack(Solo) \/ Wake(Solo)

WorkerFault == ProcessFail(Solo) \/ AckFail(Solo) \/ Kill(Solo)

InitPipe ==
    /\ IngestIdle
    /\ ValidatorIdle
    /\ WorkerIdle
    /\ model = TrainedModel

NextPipe == IngestStep \/ WorkerStep \/ WorkerFault

SpecPipe == InitPipe /\ [][NextPipe]_vars

\* The loop of main() keeps running and the API keeps answering.
FairPipe == SpecPipe /\ WF_vars(WorkerStep) /\ WF_vars(IngestStep)

(* ------------------- the worker on a published stream ------------------ *)
\* The stream entry of a reading whose event row has the id.
Payload(s, id) ==
    [patient_id |-> s.patient_id, timestamp |-> isoformat(s.timestamp),
     vitals |-> s.vitals, db_id |-> id]

\* The runs of n readings from S that the store accepts one after the other:
\* no two with the same (patient_id, timestamp).
Runs(S, n) ==
    {run \in [1..n -> S] :
        \A i, j \in 1..n : i # j => EventKey(run[i]) # EventKey(run[j])}

\* The cache, the store and the stream after the readings of the run were
\* ingested and answered 202 and their rate counters expired.
AfterIngest(run) ==
    /\ reqs = [r \in Slots |-> NewRequest]
    /\ rate = [p \in Patients |-> 0]
    /\ rateTtl = [p \in Patients |-> FALSE]
    /\ admitted = [p \in Patients |-> 0]
    /\ rejected = [p \in Patients |-> 0]
    /\ idem = {get_idempotency_key(run[k]) : k \in 1..Len(run)}
    /\ patients = {run[k].patient_id : k \in 1..Len(run)}
    /\ rows = {[id |-> k, patient_id |-> run[k].patient_id,
                timestamp |-> run[k].timestamp.sec, vitals |-> run[k].vitals] :
               k \in 1..Len(run)}
    /\ stream = [k \in 1..Len(run) |-> Payload(run[k], k)]

ValidSamples == {s \in Samples : Validate(s, ClockNow)}

\* SpecProcess applies process_event to the entries of a published stream in
\* any order, each entry up to MaxDeliveries times, as a consumer group that
\* delivers an unacknowledged entry again presents them.
Deliver(i) ==
    /\ i \in 1..Len(stream)
    /\ processed[i] < MaxDeliveries
    /\ process_event(Solo, i)
    /\ processed' = [processed EXCEPT ![i] = @ + 1]
    /\ UNCHANGED <<ingestVars, stream, validatorVars, wpc, batch, reply, last_delivered,
                   pending, model, faults, group>>

InitProcess ==
    /\ \E n \in 1..MaxRequests : \E run \in Runs(ValidSamples, n) : AfterIngest(run)
    /\ ValidatorIdle
    /\ WorkerIdle
    /\ model \in Models

NextProcess == \E i \in EntryIds : Deliver(i)

SpecProcess == InitProcess /\ [][NextProcess]_vars

\* Seconds before the clock at which one patient's readings were taken.
WindowOffsets == {0, 30, 120, 150, 600, 900}

\* Readings of one patient, in any order of their timestamps.
WindowReadings ==
    {Reading(BusyPatient, ClockNow - d, 0, Vitals(72, 120, 80, 98, 16, 368)) :
        d \in WindowOffsets}

\* SpecWindows runs the worker, without failures, over a stream of
\* MaxReadings readings of one patient sent in any order.
InitWindows ==
    /\ \E run \in Runs(WindowReadings, MaxReadings) : AfterIngest(run)
    /\ ValidatorIdle
    /\ WorkerIdle
    /\ model = NormalModel

NextWindows == WorkerStart(Solo) \/ Read(Solo) \/ ProcessOk(Solo) \/ Ack(Solo)

SpecWindows == InitWindows /\ [][NextWindows]_vars

(* ------------------- the classifier on a warm window ------------------- *)
\* The readings that fill the window before the classified ones.
Baseline == Vitals(72, 120, 80, 98, 16, 368)

\* Vitals at and next to the limits of the threshold events and such that,
\* after five baseline readings, the deviation from the window's mean is at
\* or next to 20 bpm (96, 97) and 5 points (92, 91).
ClassifyVitals ==
    {Vitals(hr, 120, 80, spo2, 16, 368) :
        hr \in {72, 96, 97, HR_LIMIT, HR_LIMIT + 1},
        spo2 \in {98, 92, 91, SPO2_LIMIT, SPO2_LIMIT - 1}}

\* Models that flag nothing, or every reading with a score of 0.200 or 0.201.
ClassifyModels ==
    {[v \in ClassifyVitals |-> d] : d \in {100, 0 - HIGH_SCORE, 0 - (HIGH_SCORE + 1)}}

\* WARM_COUNT baseline readings of one patient a second apart, then the
\* extras, all inside ten minutes and in the order of their timestamps.
WarmRun(extras) ==
    [k \in 1..(WARM_COUNT + Len(extras)) |->
        Reading(BusyPatient, ClockNow - (WARM_COUNT + Len(extras) - k), 0,
                IF k <= WARM_COUNT THEN Baseline ELSE extras[k - WARM_COUNT])]

\* SpecClassify runs the worker, without failures, over such a stream.
InitClassify ==
    /\ \E extras \in [1..MaxExtra -> ClassifyVitals] : AfterIngest(WarmRun(extras))
    /\ ValidatorIdle
    /\ WorkerIdle
    /\ model \in ClassifyModels

SpecClassify == InitClassify /\ [][NextWindows]_vars

(* ----------------------- the workers of the group ---------------------- *)
\* The readings an ingest origin sends while the workers run: the flagged
\* sample, or the next reading of the busy patient.
Published ==
    {s \in ValidSamples : s.timestamp.off = 0 /\ s.vitals.hr > HR_LIMIT}
    \cup {Reading(BusyPatient, ClockNow - Len(stream), 0, Baseline)}

\* POST /ingest of a reading not seen before, from the request to the 202,
\* with the cache, the store and the stream up: the event row is committed,
\* the entry appended, the idempotency key set. The rate counter it touched
\* has expired.
Publish(s) ==
    /\ Len(stream) < MaxPublished
    /\ ~UniqueViolation(s)
    /\ patients' = patients \cup {s.patient_id}
    /\ rows' = rows \cup {[id |-> NextEventId, patient_id |-> s.patient_id,
                           timestamp |-> s.timestamp.sec, vitals |-> s.vitals]}
    /\ stream' = Append(stream, Payload(s, NextEventId))
    /\ idem' = idem \cup {get_idempotency_key(s)}
    /\ UNCHANGED <<reqs, rate, rateTtl, admitted, rejected, validatorVars, workerVars>>

\* SpecGroup runs the workers of the consumer group, started, failing,
\* killed and signalled at any point, while readings are published; the
\* model file may be missing.
InitGroup ==
    /\ IngestIdle
    /\ ValidatorIdle
    /\ WorkerIdle
    /\ model \in Models \cup {NoModel}

NextGroup ==
    \/ \E s \in Published : Publish(s)
    \/ \E w \in Workers : WorkerStart(w)
    \/ \E w \in Workers : WorkerStartFails(w)
    \/ \E w \in Workers : Read(w)
    \/ \E w \in Workers : ReadFail(w)
    \/ \E w \in Workers : Wake(w)
    \/ \E w \in Workers : ProcessOk(w)
    \/ \E w \in Workers : ProcessFail(w)
    \/ \E w \in Workers : Ack(w)
    \/ \E w \in Workers : AckFail(w)
    \/ \E w \in Workers : Kill(w)
    \/ \E w \in Workers : Shutdown(w)

SpecGroup == InitGroup /\ [][NextGroup]_vars

(* ------------------------- one worker and its loop --------------------- *)
\* SpecLoop runs one worker that is never killed while readings are
\* published and xreadgroup, process_event and xack fail at any point.
NextLoop ==
    \/ \E s \in Published : Publish(s)
    \/ WorkerStart(Solo)
    \/ Read(Solo)
    \/ ReadFail(Solo)
    \/ Wake(Solo)
    \/ ProcessOk(Solo)
    \/ ProcessFail(Solo)
    \/ Ack(Solo)
    \/ AckFail(Solo)

InitLoop ==
    /\ IngestIdle
    /\ ValidatorIdle
    /\ WorkerIdle
    /\ model \in Models

SpecLoop == InitLoop /\ [][NextLoop]_vars

\* The worker takes its next step: main() starts, the sleep ends, xreadgroup
\* returns what is new, process_event and xack return.
LoopStep == WorkerStart(Solo) \/ Wake(Solo) \/ Read(Solo) \/ ProcessOk(Solo) \/ Ack(Solo)

FairLoop == SpecLoop /\ WF_vars(LoopStep)

(* ------------------------------- claims -------------------------------- *)
Done(r) == reqs[r].pc = "done"

Prefix(n) == SubSeq(StepOrder, 1, n)

IsPrefixOfStepOrder(d) == Len(d) <= Len(StepOrder) /\ d = Prefix(Len(d))

KeyOf(r) == EventKey(reqs[r].rd)

Is2xx(st) == st >= 200 /\ st <= 299

\* C1: every ingest request answered 202 has exactly one vitals_events row
\* with its (patient_id, timestamp), from the response on (rows are never
\* removed, so also once the system is quiet).
C1_AcceptedHasExactlyOneRow ==
    \A r \in Requests :
        (Done(r) /\ reqs[r].status = HTTP_ACCEPTED) => Cardinality(RowsFor(KeyOf(r))) = 1

\* A 202 next to a retry of the same (patient_id, timestamp) that ran into
\* the unique index.
C1_Witness ==
    \E r1, r2 \in Requests :
        /\ r1 # r2 /\ Done(r1) /\ Done(r2) /\ KeyOf(r1) = KeyOf(r2)
        /\ reqs[r1].status = HTTP_ACCEPTED /\ reqs[r1].body = "queued"
        /\ reqs[r2].cause = "unique"

\* C2 as stated: of two requests with the same reading, the first accepted
\* and its idempotency key still in the cache, the second met no failure of
\* the cache, the store or the stream and was not rate limited: there is at
\* most one row and one stream entry, and the second is answered "ignored" or
\* as a duplicate.
C2_Original ==
    \A r1, r2 \in Requests :
        ( /\ r1 < r2 /\ Done(r1) /\ Done(r2)
          /\ reqs[r1].rd = reqs[r2].rd
          /\ reqs[r1].body = "queued"
          /\ get_idempotency_key(reqs[r1].rd) \in idem
          /\ reqs[r2].cause \notin {"cache", "store", "stream", "crash", "rate_limit"} )
        => /\ Cardinality(RowsFor(KeyOf(r1))) <= 1
           /\ Cardinality(EntriesFor(KeyOf(r1))) <= 1
           /\ reqs[r2].body \in {"ignored", "duplicate"}
           /\ Is2xx(reqs[r2].status)

\* C3: every stream entry's db_id is the id of a committed vitals_events row
\* of the same patient.
C3_StreamEntryHasRow ==
    \A i \in 1..Len(stream) :
        \E w \in rows : w.id = stream[i].db_id /\ w.patient_id = stream[i].patient_id

\* Two entries published while the rows of both are committed.
C3_Witness == Len(stream) = 2 /\ Cardinality(rows) = 2

\* C4 as stated: a commit that hits the unique index on (patient_id,
\* timestamp) is answered as a duplicate, not as a storage error.
C4_Original ==
    \A r \in Requests :
        (Done(r) /\ reqs[r].cause = "unique") => reqs[r].status # HTTP_SERVER_ERROR

\* C5 as stated: a request answered from the idempotency cache gets HTTP 200,
\* and 202 is kept for the newly accepted reading.
C5_Original ==
    \A r \in Requests :
        /\ (Done(r) /\ reqs[r].body = "ignored") => reqs[r].status = 200
        /\ (Done(r) /\ reqs[r].status = HTTP_ACCEPTED) => reqs[r].body = "queued"

\* C6: when a request committed its row and then stopped before the key was
\* set (crash, or a failed xadd or setex), the row is there, and with any
\* replay of the same (patient_id, timestamp) there is still one row and at
\* most one stream entry for it.
C6_ReplayAfterPartialFailureIsSafe ==
    \A r \in Requests :
        ( /\ Done(r)
          /\ reqs[r].event_id # 0
          /\ reqs[r].cause \in {"crash", "stream", "cache"} )
        => /\ Cardinality(RowsFor(KeyOf(r))) = 1
           /\ \E w \in RowsFor(KeyOf(r)) : w.id = reqs[r].event_id
           /\ Cardinality(EntriesFor(KeyOf(r))) <= 1

\* A request stopped between commit and setex, and a later replay of its
\* (patient_id, timestamp) that went as far as the store.
C6_Witness ==
    \E r1, r2 \in Requests :
        /\ r1 < r2 /\ Done(r1) /\ Done(r2) /\ KeyOf(r1) = KeyOf(r2)
        /\ reqs[r1].event_id # 0 /\ reqs[r1].cause \in {"crash", "stream", "cache"}
        /\ Len(reqs[r2].did) >= 3 /\ reqs[r2].event_id = 0

\* C7: an idempotency key in the cache belongs to a reading whose row is
\* committed and whose stream entry is published.
C7_KeyImpliesRow ==
    \A k \in idem :
        \E s \in Samples :
            /\ get_idempotency_key(s) = k
            /\ RowsFor(EventKey(s)) # {}
            /\ EntriesFor(EventKey(s)) # {}

\* A key in the cache while another request for the same instant, written in
\* another zone, has passed the lookup.
C7_Witness ==
    \E r \in Requests :
        /\ idem # {}
        /\ reqs[r].pc = "db"
        /\ get_idempotency_key(reqs[r].rd) \notin idem
        /\ RowsFor(KeyOf(r)) # {}

\* C8: a failing ingest is answered with the status of the step that failed:
\* validation 422, rate limit 429, store 500, stream publish 503; and no
\* request that met a failure of the cache, the store or the stream, or did
\* not complete the steps, is answered 2xx unless it was a cache hit.
C8_FailureMapping ==
    \A r \in Requests :
        Done(r) =>
            /\ (~Validate(reqs[r].rd, ClockNow)) <=> (reqs[r].status = HTTP_UNPROCESSABLE)
            /\ reqs[r].cause = "validation" => reqs[r].status = HTTP_UNPROCESSABLE
            /\ reqs[r].cause = "rate_limit" => reqs[r].status = HTTP_TOO_MANY
            /\ reqs[r].cause \in {"store", "unique"} => reqs[r].status = HTTP_SERVER_ERROR
            /\ reqs[r].cause = "stream" => reqs[r].status = HTTP_UNAVAILABLE
            /\ reqs[r].cause \in {"cache", "store", "unique", "stream"}
                  => ~Is2xx(reqs[r].status)
            /\ Is2xx(reqs[r].status) => reqs[r].did \in {Prefix(3), StepOrder}

\* A 503 from the stream next to a 500 from the store.
C8_Witness ==
    \E r1, r2 \in Requests :
        /\ Done(r1) /\ reqs[r1].cause = "stream" /\ reqs[r1].status = HTTP_UNAVAILABLE
        /\ Done(r2) /\ reqs[r2].cause = "store" /\ reqs[r2].status = HTTP_SERVER_ERROR

\* What a finished request has done, by its answer.
StoppedWhereAnswered(r) ==
    LET q == reqs[r] IN
    /\ q.status = HTTP_UNPROCESSABLE => q.did = Prefix(1)
    /\ q.status = HTTP_TOO_MANY => q.did = Prefix(2)
    /\ q.body = "ignored" => q.did = Prefix(3)
    /\ q.cause \in {"store", "unique"} => q.did = Prefix(3)
    /\ (q.cause = "stream" /\ q.msg_id = 0) => q.did = Prefix(4)
    /\ q.body = "queued" => q.did = StepOrder
    /\ Len(q.did) < 4 => q.event_id = 0
    /\ Len(q.did) < 5 => q.msg_id = 0
    /\ q.event_id # 0 => \E w \in rows : w.id = q.event_id
    /\ q.msg_id # 0 => q.msg_id <= Len(stream) /\ stream[q.msg_id].db_id = q.event_id

\* The step of request r that calls incr.
IncrStep(r) ==
    /\ reqs[r].pc = "incr"
    /\ Len(reqs'[r].did) = 2

\* C9 (state part): the steps a request has performed are an initial part of
\* validate, rate, lookup, commit, publish, setkey, and a request answered at
\* a step holds the effect of no later step.
C9_StepsInOrder ==
    \A r \in Requests :
        /\ IsPrefixOfStepOrder(reqs[r].did)
        /\ Done(r) => StoppedWhereAnswered(r)

\* C9 (step part): the increment that takes the counter over the ceiling ends
\* the request with 429 whether or not its key is cached.
C9_OverLimitWins ==
    \A r \in Requests :
        (IncrStep(r) /\ rate'[RateKey(reqs[r].rd)] > RATE_CEILING)
        => /\ reqs'[r].pc = "done"
           /\ reqs'[r].status = HTTP_TOO_MANY
           /\ reqs'[r].body # "ignored"

\* C9: the ingest steps run in the order validate, rate-limit check, cache
\* lookup, durable commit, stream publish, set key; a request stopped at a
\* step performs no later effect; over the limit and cached gives 429; a
\* cached duplicate has incremented the counter.
C9_FixedOrder == []C9_StepsInOrder /\ [][C9_OverLimitWins]_vars

\* A request answered 429 while the key of its reading is in the cache.
C9_Witness ==
    \E r \in Requests :
        /\ Done(r) /\ reqs[r].status = HTTP_TOO_MANY
        /\ get_idempotency_key(reqs[r].rd) \in idem

\* The callers of patient p between the first increment and its expire call.
FirstInFlight(p) ==
    Cardinality({r \in Slots : reqs[r].pc = "expire" /\ RateKey(reqs[r].rd) = p})

\* C10 (state part): in the lifetime of a counter the increments 1..20 are
\* admitted and every later one is rejected.
C10_Counts ==
    \A p \in Patients :
        /\ admitted[p] + FirstInFlight(p) = Min(rate[p], RATE_CEILING)
        /\ rejected[p] = Max(rate[p] - RATE_CEILING, 0)
        /\ \A r \in Slots :
              (Done(r) /\ reqs[r].cause = "rate_limit") => reqs[r].status = HTTP_TOO_MANY

\* C10 (step part): a patient's counter and verdicts change only by a call
\* for that patient or by the expiry of that patient's counter.
C10_Independent ==
    \A p \in Patients :
        (rate'[p] # rate[p] \/ admitted'[p] # admitted[p] \/ rejected'[p] # rejected[p])
        => \/ rate[p] > 0 /\ rateTtl[p] /\ rate'[p] = 0
           \/ \E r \in Slots :
                 /\ reqs[r].pc \in {"incr", "expire"}
                 /\ reqs'[r] # reqs[r]
                 /\ RateKey(reqs[r].rd) = p

C11_Original ==
    \A p \in Patients : rate[p] > 0 => (rateTtl[p] \/ FirstInFlight(p) > 0)

\* The step of request r that ends it with the answer 422, 429 or "ignored".
Refused(r) ==
    /\ reqs[r].pc # "done"
    /\ reqs'[r].pc = "done"
    /\ \/ reqs'[r].status \in {HTTP_UNPROCESSABLE, HTTP_TOO_MANY}
       \/ reqs'[r].body = "ignored"

\* C12 (state part): a request answered 422, 429 or "ignored" has committed
\* no row and published no entry.
C12_NothingHeld ==
    \A r \in Requests :
        ( /\ Done(r)
          /\ \/ reqs[r].status \in {HTTP_UNPROCESSABLE, HTTP_TOO_MANY}
             \/ reqs[r].body = "ignored" )
        => /\ Len(reqs[r].did) <= 3
           /\ reqs[r].event_id = 0
           /\ reqs[r].msg_id = 0

\* C12 (step part): the steps of a request up to and including the cache
\* lookup leave the tables, the stream and the idempotency keys as they are,
\* and validation leaves the rate counters as they are.
C12_StepFrame ==
    \A r \in Requests :
        /\ (reqs'[r] # reqs[r] /\ reqs[r].pc \in {"new", "incr", "expire", "lookup"})
              => UNCHANGED <<patients, rows, stream, idem>>
        /\ Refused(r) => UNCHANGED <<patients, rows, stream, idem>>
        /\ (Refused(r) /\ reqs'[r].status = HTTP_UNPROCESSABLE)
              => UNCHANGED <<rate, rateTtl>>

\* C12: a request rejected by validation (422), by the rate limiter (429) or
\* answered as a cached duplicate leaves the patients table, vitals_events,
\* the stream and the idempotency keys unchanged, and a validation-rejected
\* request leaves the rate counter unchanged as well.
C12_RejectedLeavesNoTrace == []C12_NothingHeld /\ [][C12_StepFrame]_vars

\* A cached duplicate answered next to the accepted request whose row, entry
\* and key are there.
C12_Witness ==
    \E r1, r2 \in Requests :
        /\ Done(r1) /\ reqs[r1].body = "queued"
        /\ Done(r2) /\ reqs[r2].body = "ignored"
        /\ Cardinality(rows) = 1 /\ Len(stream) = 1 /\ Cardinality(idem) = 1

\* C13: the patient upsert and the event insert of one ingest commit together
\* or not at all: the patients table holds exactly the patients of the event
\* rows, so no ingest left a patient without its event, and every event row
\* has its patient.
C13_UpsertAndInsertAtomic ==
    /\ \A w \in rows : w.patient_id \in patients
    /\ \A p \in patients : \E w \in rows : w.patient_id = p

\* A failed event insert for a patient who has no row, next to a committed
\* ingest of another patient.
C13_Witness ==
    \E r \in Requests :
        /\ Done(r) /\ reqs[r].cause = "store"
        /\ reqs[r].rd.patient_id \notin patients
        /\ rows # {}

\* The ranges as the interface states them.
InStatedRanges(rd) ==
    /\ Len(rd.patient_id) \in 1..50
    /\ rd.vitals.hr \in 30..250
    /\ rd.vitals.bp_sys \in 50..250
    /\ rd.vitals.bp_dia \in 30..150
    /\ rd.vitals.spo2 \in 50..100
    /\ rd.vitals.rr \in 4..60
    /\ rd.vitals.temp \in 300..450

\* C14: the validator admits a reading exactly when every field is inside its
\* inclusive range (hr 30-250, bp_sys 50-250, bp_dia 30-150, spo2 50-100,
\* rr 4-60, temp 30.0-45.0, patient_id of 1 to 50 characters) and the
\* timestamp is at most 300 s after the clock: with the fields in range,
\* now + 299 s is admitted and now + 301 s is rejected.
C14_ValidatorBounds ==
    vout \in {"admitted", "rejected"} =>
        /\ vout = "admitted" <=>
              (InStatedRanges(vin) /\ vin.timestamp.sec - ClockNow <= 300)
        /\ (InStatedRanges(vin) /\ vin.timestamp.sec = ClockNow + 299) => vout = "admitted"
        /\ vin.timestamp.sec = ClockNow + 301 => vout = "rejected"

\* A reading admitted with hr and rr at the lower end, temp and spo2 at the
\* upper end, a patient_id of 50 characters and a timestamp 300 s ahead.
C14_Witness ==
    /\ vout = "admitted"
    /\ vin.vitals.hr = 30 /\ vin.vitals.rr = 4
    /\ vin.vitals.temp = 450 /\ vin.vitals.spo2 = 100
    /\ Len(vin.patient_id) = 50
    /\ vin.timestamp.sec = ClockNow + 300

\* The requests that were sent.
Sent == {r \in Requests : reqs[r].pc # "new"}

\* The requests the load generator counts as sent successfully.
Accepted == {r \in Requests : Done(r) /\ Is2xx(reqs[r].status)}

\* The id of the entry is delivered and acknowledged.
Acked(i) == i <= last_delivered /\ i \notin pending

\* The anomalies rows of a patient and instant.
AnomaliesFor(key) == {a \in anomalies : <<a.patient_id, a.timestamp>> = key}

\* The (patient_id, instant) of a stream entry.
EntryKey(entry) == <<entry.patient_id, fromisoformat(entry.timestamp).sec>>

\* C15: the worker, killed and restarted at any point, never changes
\* vitals_events: the rows are exactly those the ingest requests committed, no
\* (patient_id, timestamp) is in two rows, and when the readings sent have
\* distinct (patient_id, timestamp) and all are answered, the number of rows is
\* the number of accepted responses.
C15_KillRestartKeepsEvents ==
    /\ rows = {[id |-> reqs[r].event_id, patient_id |-> reqs[r].rd.patient_id,
                timestamp |-> reqs[r].rd.timestamp.sec, vitals |-> reqs[r].rd.vitals] :
               r \in {x \in Requests : reqs[x].event_id # 0}}
    /\ \A w1, w2 \in rows :
          (w1.patient_id = w2.patient_id /\ w1.timestamp = w2.timestamp) => w1 = w2
    /\ ( /\ \A r \in Requests : Done(r)
         /\ \A r1, r2 \in Requests : r1 # r2 => KeyOf(r1) # KeyOf(r2) )
       => Cardinality(rows) = Cardinality(Accepted)

\* Two readings of different patients accepted; the worker was killed holding
\* the first entry (its memory of that patient is gone, the entry is still
\* pending), restarted, and has drained the stream.
C15_Witness ==
    /\ \A r \in Requests : Done(r) /\ reqs[r].body = "queued"
    /\ Cardinality(rows) = 2
    /\ Len(stream) = 2 /\ last_delivered = 2
    /\ wpc[Solo] = "read"
    /\ pending = {1}
    /\ processed[2] = 1
    /\ stream[1].patient_id \notin DOMAIN patient_states[Solo]

\* The reading of the entry is in the 10-minute window of its patient.
InWindow(entry) ==
    /\ entry.patient_id \in DOMAIN patient_states[Solo]
    /\ \E k \in 1..Len(patient_states[Solo][entry.patient_id].w_10m) :
          patient_states[Solo][entry.patient_id].w_10m[k] = Observed(entry)

\* C16 (state part): an acknowledged entry was processed to the end, with its
\* anomaly row committed when the model flags it; an entry about to be
\* acknowledged is in the window of its patient; a delivered entry whose
\* processing never completed is pending.
C16_AckedWasProcessed ==
    /\ \A i \in 1..Len(stream) :
          /\ Acked(i) => /\ processed[i] >= 1
                         /\ is_anomaly(stream[i]) => AnomaliesFor(EntryKey(stream[i])) # {}
          /\ (i <= last_delivered /\ processed[i] = 0) => i \in pending
    /\ wpc[Solo] = "ack" => /\ Head(batch[Solo]) \in pending
                      /\ processed[Head(batch[Solo])] >= 1
                      /\ InWindow(stream[Head(batch[Solo])])

\* C16 (step part): an entry leaves the pending list only by the xack that
\* follows its own process_event; a failure or a kill removes none.
C16_OnlyAckRemoves ==
    pending' # pending =>
        \/ wpc[Solo] = "read" /\ pending \subseteq pending'
        \/ wpc[Solo] = "ack" /\ wpc'[Solo] # "down" /\ pending' = pending \ {Head(batch[Solo])}

\* C16: a stream entry is acknowledged only after its window update and, if
\* flagged, its committed anomaly row; when a step of its processing fails or
\* the worker dies before the ack, the entry stays pending.
C16_AckAfterEffects == []C16_AckedWasProcessed /\ [][C16_OnlyAckRemoves]_vars

\* A flagged entry acknowledged with its anomaly row, next to an entry that is
\* pending because its processing never completed.
C16_Witness ==
    \E i, j \in 1..Len(stream) :
        /\ Acked(i) /\ is_anomaly(stream[i]) /\ AnomaliesFor(EntryKey(stream[i])) # {}
        /\ j \in pending /\ processed[j] = 0 /\ wpc[Solo] = "read"

\* C17 as stated: every entry delivered to a worker and left unacknowledged is
\* in the end reclaimed, processed again and acknowledged.
C17_Original ==
    \A i \in EntryIds : (i \in pending) ~> Acked(i)

\* C18 as stated: processing the same stream entry twice adds no second
\* anomaly row with the same (patient_id, timestamp, kind).
C18_Original ==
    \A a, b \in anomalies :
        ( /\ a.patient_id = b.patient_id
          /\ a.timestamp = b.timestamp
          /\ a.anomaly_type = b.anomaly_type ) => a = b

\* C19: after any replays of a reading inside the idempotency window, with
\* the worker failing, killed and restarted in between, vitals_events has at
\* most one row for its (patient_id, timestamp), exactly one once a replay is
\* accepted, and anomalies has at most one row for that patient and timestamp.
C19_OneRowOneAnomaly ==
    \A r \in Sent :
        /\ Cardinality(RowsFor(KeyOf(r))) <= 1
        /\ r \in Accepted => Cardinality(RowsFor(KeyOf(r))) = 1
        /\ Cardinality(AnomaliesFor(KeyOf(r))) <= 1

\* A flagged reading sent twice, accepted once and ignored once; the worker
\* was killed with the entry pending and runs again, and the anomaly row of
\* the reading is there.
C19_Witness ==
    \E r1, r2 \in Requests :
        /\ r1 # r2 /\ reqs[r1].rd = reqs[r2].rd
        /\ Done(r1) /\ reqs[r1].body = "queued"
        /\ Done(r2) /\ reqs[r2].body = "ignored"
        /\ Cardinality(AnomaliesFor(KeyOf(r1))) = 1
        /\ faults >= 1 /\ wpc[Solo] = "read" /\ pending # {}
        /\ patient_states[Solo] = <<>>

\* The entries of a window, as a set of positions.
Retained(events) == {events[k] : k \in 1..Len(events)}

\* C20 as stated: when the worker has processed a reading R, every entry kept
\* in the 30 s, 120 s and 600 s windows of R's patient satisfies
\* R.timestamp - entry.timestamp <= window size, whatever the order of the
\* earlier readings.
C20_Original ==
    wpc[Solo] = "ack" =>
        LET R == Observed(stream[Head(batch[Solo])])
            st == patient_states[Solo][stream[Head(batch[Solo])].patient_id] IN
        /\ \A e \in Retained(st.w_30s) : R.timestamp.sec - e.timestamp.sec <= W_30S
        /\ \A e \in Retained(st.w_2m) : R.timestamp.sec - e.timestamp.sec <= W_2M
        /\ \A e \in Retained(st.w_10m) : R.timestamp.sec - e.timestamp.sec <= W_10M

\* The timestamps of the patient's readings a worker without restarts has put
\* into its windows: those of the entries process_event was called with.
Inserted(pid) ==
    {Observed(stream[i]).timestamp.sec :
        i \in {j \in 1..Len(stream) : invoked[j] >= 1 /\ stream[j].patient_id = pid}}

Newest(S) == CHOOSE m \in S : \A x \in S : x <= m

\* C21 as stated: in every state of a patient's windows, every retained entry
\* is at most the window size older than the latest timestamp ever inserted
\* into that window, also after an out-of-order reading was inserted.
C21_Original ==
    \A p \in DOMAIN patient_states[Solo] :
        LET st == patient_states[Solo][p]
            newest == Newest(Inserted(p)) IN
        /\ \A e \in Retained(st.w_30s) : newest - e.timestamp.sec <= W_30S
        /\ \A e \in Retained(st.w_2m) : newest - e.timestamp.sec <= W_2M
        /\ \A e \in Retained(st.w_10m) : newest - e.timestamp.sec <= W_10M

\* The reading add_reading was last called with, and its patient's windows.
Current == Observed(stream[Head(batch[Solo])])

CurrentState == patient_states[Solo][stream[Head(batch[Solo])].patient_id]

\* The window ends with the reading and its aggregates are there for it.
EndsWith(events, reading) ==
    /\ events # <<>>
    /\ events[Len(events)] = reading
    /\ get_aggregates(events).count >= 1
    /\ get_aggregates(events).end_time = reading.timestamp.sec

\* C22: immediately after add_reading(r), also for an r older than the tail
\* it met, r is the tail entry of all three windows, each window's count is
\* at least 1 and its end_time is r's timestamp.
C22_TailAfterInsert ==
    wpc[Solo] = "ack" =>
        /\ stream[Head(batch[Solo])].patient_id \in DOMAIN patient_states[Solo]
        /\ EndsWith(CurrentState.w_30s, Current)
        /\ EndsWith(CurrentState.w_2m, Current)
        /\ EndsWith(CurrentState.w_10m, Current)

\* A reading was inserted that is older than the entry before it in every
\* window.
C22_Witness ==
    /\ wpc[Solo] = "ack"
    /\ \A events \in {CurrentState.w_30s, CurrentState.w_2m, CurrentState.w_10m} :
          /\ Len(events) >= 2
          /\ events[Len(events)] = Current
          /\ Current.timestamp.sec < events[Len(events) - 1].timestamp.sec

\* The kind the stated priority gives a flagged reading, from the readings
\* the 10-minute window holds (the current one among them) and the score in
\* thousandths; the means are compared exactly.
StatedKind(reading, events, score) ==
    LET n == Len(events)
        hrs == Sum([k \in 1..n |-> events[k].vitals.hr])
        spo2s == Sum([k \in 1..n |-> events[k].vitals.spo2]) IN
    IF n <= 5 THEN "spike"
    ELSE IF Abs(n * reading.vitals.hr - hrs) > 20 * n THEN "spike"
    ELSE IF Abs(n * reading.vitals.spo2 - spo2s) > 5 * n THEN "drop"
    ELSE IF score > 200 THEN "multi-signal"
    ELSE "drift"

Kinds == {"spike", "drop", "drift", "multi-signal"}

\* The ANOMALY_DETECTED lines printed for the row's patient and instant.
LinesFor(a) ==
    {l \in wlog : /\ l.event = "ANOMALY_DETECTED"
                  /\ l.patient_id = a.patient_id
                  /\ fromisoformat(l.timestamp).sec = a.timestamp}

\* C24 as stated: every anomaly row has a kind of the closed set and is
\* paired with an ANOMALY_DETECTED line carrying the same patient, timestamp
\* and score (the line's score is in hundredths, the row's in thousandths).
C24_Original ==
    \A a \in anomalies :
        /\ a.anomaly_type \in Kinds
        /\ \E l \in LinesFor(a) : 10 * l.value = a.score

\* C24, amended: every anomaly row has a kind of the closed set and is paired
\* with an ANOMALY_DETECTED line carrying the same patient, timestamp and
\* kind, and the row's score rounded to two decimals.
C24_RowHasLine ==
    \A a \in anomalies :
        /\ a.anomaly_type \in Kinds
        /\ \E l \in LinesFor(a) :
              /\ l.what = a.anomaly_type
              /\ Abs(10 * l.value - a.score) <= 5

\* A row of a reading classified on a warm window whose score, 0.201, is not
\* a whole number of hundredths, with its line.
C24_Witness ==
    \E a \in anomalies :
        /\ a.anomaly_type = "multi-signal"
        /\ a.score = HIGH_SCORE + 1
        /\ \E l \in LinesFor(a) : l.value = 20

\* C25: a processed reading has an anomaly row iff the scorer flagged it, and
\* then exactly one; a reading that only crosses a threshold (hr > 140 or
\* spo2 < 90) without the scorer's flag writes nothing to anomalies, and
\* neither does an entry not processed yet.
C25_RowIffFlagged ==
    \A i \in 1..Len(stream) :
        LET n == Cardinality(AnomaliesFor(EntryKey(stream[i]))) IN
        /\ (processed[i] >= 1 /\ is_anomaly(stream[i])) => n = 1
        /\ (processed[i] >= 1 /\ ~is_anomaly(stream[i])) => n = 0
        /\ processed[i] = 0 => n = 0

\* A reading with hr > 140 and spo2 < 90 that the scorer did not flag was
\* processed: its threshold lines are printed and the anomalies table is empty.
C25_Witness ==
    \E i \in 1..Len(stream) :
        /\ processed[i] = 1
        /\ stream[i].vitals.hr > 140 /\ stream[i].vitals.spo2 < 90
        /\ ~is_anomaly(stream[i])
        /\ \E l \in wlog : l.event = "THRESHOLD_CROSSED" /\ l.what = "hr"
        /\ anomalies = {}

\* A THRESHOLD_CROSSED line of the entry's reading for the metric was printed.
Crossed(i, metric, value) ==
    \E l \in wlog :
        /\ l.event = "THRESHOLD_CROSSED"
        /\ l.patient_id = stream[i].patient_id
        /\ l.timestamp = stream[i].timestamp
        /\ l.what = metric
        /\ l.value = value

\* C26: for every processed reading a THRESHOLD_CROSSED event with metric hr
\* was emitted iff hr > 140, and one with metric spo2 iff spo2 < 90, whatever
\* the scorer says of the reading; hr = 140 and spo2 = 90 emit nothing.
C26_ThresholdEvents ==
    \A i \in 1..Len(stream) :
        processed[i] >= 1 =>
            /\ Crossed(i, "hr", stream[i].vitals.hr) <=> stream[i].vitals.hr > 140
            /\ Crossed(i, "spo2", stream[i].vitals.spo2) <=> stream[i].vitals.spo2 < 90

\* A reading with hr 141 and spo2 89 that the scorer flagged was processed and
\* both events are in the log.
C26_Witness ==
    \E i \in 1..Len(stream) :
        /\ processed[i] = 1
        /\ is_anomaly(stream[i])
        /\ stream[i].vitals.hr = 141 /\ stream[i].vitals.spo2 = 89
        /\ Crossed(i, "hr", 141) /\ Crossed(i, "spo2", 89)

\* C27: when the model cannot be loaded the worker refuses to start: the
\* consumer group is never created, no stream entry is ever delivered, passed
\* to process_event or acknowledged, no anomaly row is written, and every
\* worker is either not started or has returned from main().
C27_NoModelNoWork ==
    model = NoModel =>
        /\ ~group
        /\ last_delivered = 0
        /\ pending = {}
        /\ anomalies = {}
        /\ \A i \in EntryIds : invoked[i] = 0 /\ processed[i] = 0
        /\ \A w \in Workers : wpc[w] \in {"down", "exited"} /\ batch[w] = <<>>

\* Both workers were started without a model file and have returned, with
\* published entries waiting on the stream.
C27_Witness ==
    /\ model = NoModel
    /\ \A w \in Workers : wpc[w] = "exited"
    /\ CriticalLine \in wlog
    /\ Len(stream) = MaxPublished

\* The worker is inside the while True of main().
InLoop(w) == wpc[w] \in {"read", "process", "ack", "backoff"}

\* The entry is in the reply the worker is working through.
InBatch(i) == \E k \in 1..Len(batch[Solo]) : batch[Solo][k] = i

\* C28 (state part): main() never returns: no failure of xreadgroup,
\* process_event or xack ends the loop.
C28_LoopNeverExits ==
    wpc[Solo] \notin {"exited", "stopped"}

\* C28 (step part): the step in which the worker meets a failure takes it to
\* the back-off, and the back-off is left only for the next xreadgroup.
C28_FailureBacksOff ==
    /\ (InLoop(Solo) /\ faults' # faults) => wpc'[Solo] = "backoff"
    /\ (wpc[Solo] = "backoff" /\ wpc'[Solo] # "backoff") => wpc'[Solo] = "read"

\* A published entry not yet delivered to the group.
Waiting(i) == i <= Len(stream) /\ i > last_delivered

\* C28: a failure while reading the stream or processing an entry never ends
\* the worker loop: it is caught at the loop boundary, the worker backs off,
\* reads again, and every entry not yet delivered (those published later
\* among them) is in the end delivered, and processed and acknowledged
\* unless a new failure meets its batch.
C28_LoopSurvivesFailure ==
    /\ []C28_LoopNeverExits
    /\ [][C28_FailureBacksOff]_vars
    /\ (wpc[Solo] = "backoff") ~> (wpc[Solo] = "read")
    /\ \A i \in EntryIds : Waiting(i) ~> (i <= last_delivered)
    /\ \A i \in EntryIds : (i \in pending /\ faults = MaxFaults /\ InBatch(i)) ~> Acked(i)

\* The one worker that ran failed in process_event on the first entry, which
\* is still pending, and has since read, processed and acknowledged the entry
\* published after it.
C28_Witness ==
    /\ wpc[Solo] = "read"
    /\ faults = 1 /\ ErrorLine \in wlog
    /\ invoked[1] = 1 /\ processed[1] = 0 /\ 1 \in pending
    /\ processed[2] = 1 /\ Acked(2)

\* C29 as stated: a worker that gets a shutdown signal finishes and
\* acknowledges the batch it holds before it exits. With no failure and no
\* kill before, the pending entries are those of batches in hand, so once
\* every worker that ran has exited on a signal nothing is pending.
C29_Original ==
    (faults = 0 /\ \A w \in Workers : wpc[w] \in {"down", "stopped"}) => pending = {}

\* C30: no stream entry is passed to process_event more than once, whichever
\* worker of the group reads it and whatever failures, kills and restarts
\* happen; an entry is delivered once, to one worker.
C30_AtMostOnce ==
    /\ \A i \in EntryIds : invoked[i] <= 1
    /\ \A w1, w2 \in Workers : \A k1 \in 1..Len(batch[w1]), k2 \in 1..Len(batch[w2]) :
          batch[w1][k1] = batch[w2][k2] => (w1 = w2 /\ k1 = k2)
    /\ \A w \in Workers : \A k \in 1..Len(batch[w]) :
          /\ batch[w][k] \in pending
          /\ (k > 1 \/ wpc[w] = "process") => invoked[batch[w][k]] = 0

\* Each of two workers holds in its windows a reading the other never saw,
\* after a failure or a kill left an entry pending that process_event was
\* called with once.
C30_Witness ==
    /\ \A w \in Workers : InLoop(w) /\ patient_states[w] # <<>>
    /\ patient_states["worker-1"] # patient_states["worker-2"]
    /\ faults >= 1
    /\ \E i \in pending : invoked[i] = 1 /\ processed[i] = 0

\* The positions of a worker's reply whose entries satisfy P.
Positions(w, P(_)) == {k \in 1..Len(reply[w]) : P(reply[w][k])}

IsAcked(i) == i \notin pending

WasInvoked(i) == invoked[i] >= 1

HasReturned(i) == processed[i] >= 1

\* C31 (state part): in the reply a worker is working on, the acknowledged
\* entries are the first m, process_event has returned for those and at most
\* for the next one, and was called for nothing after that one; a worker in
\* its back-off after a failure on entry k has left every entry after k
\* untouched and pending.
C31_AckedIsPrefix ==
    \A w \in Workers :
        /\ \E m \in 0..Len(reply[w]) :
              /\ Positions(w, IsAcked) = 1..m
              /\ Positions(w, HasReturned) \in {1..m, 1..(m + 1)} 
              /\ Positions(w, WasInvoked) \subseteq 1..(m + 1)
              /\ wpc[w] = "process" => Positions(w, WasInvoked) = 1..m
        /\ (wpc[w] = "backoff" /\ reply[w] # <<>>) =>
              \E k \in 1..Len(reply[w]) :
                  /\ WasInvoked(reply[w][k]) /\ ~IsAcked(reply[w][k])
                  /\ \A j \in (k + 1)..Len(reply[w]) :
                        ~WasInvoked(reply[w][j]) /\ ~IsAcked(reply[w][j])

\* C31 (step part): one at a time: a step acknowledges at most one entry and
\* calls process_event for at most one.
C31_OneAtATime ==
    /\ Cardinality(pending \ pending') <= 1
    /\ Cardinality({i \in EntryIds : invoked'[i] # invoked[i]}) <= 1

\* C31: within one delivered batch the entries are processed and
\* acknowledged in delivery order, one at a time; the acknowledged entries
\* form a prefix of the batch, and when processing of entry k fails the
\* entries after k are neither processed nor acknowledged in that iteration.
C31_InOrder == []C31_AckedIsPrefix /\ [][C31_OneAtATime]_vars

\* A worker was delivered two entries at once, process_event failed on the
\* first, and the worker is in its back-off with both still pending and the
\* second never tried.
C31_Witness ==
    \E w \in Workers :
        /\ wpc[w] = "backoff"
        /\ Len(reply[w]) = 2
        /\ invoked[reply[w][1]] = 1 /\ processed[reply[w][1]] = 0
        /\ invoked[reply[w][2]] = 0
        /\ {reply[w][1], reply[w][2]} \subseteq pending

\* The request committed its event row and its xadd raised.
PublishFailed(r) ==
    Done(r) /\ reqs[r].status = HTTP_UNAVAILABLE /\ reqs[r].cause = "stream"

\* C32: once the publish of a reading failed after its commit, in every later
\* state, whatever retries of the same (patient_id, timestamp) were made, the
\* event row exists and the stream has no entry for the pair; every stream
\* entry has its event row, the converse need not hold.
C32_FailedPublishNeverPublished ==
    /\ \A r \in Requests :
          PublishFailed(r) =>
              /\ Cardinality(RowsFor(KeyOf(r))) = 1
              /\ EntriesFor(KeyOf(r)) = {}
    /\ \A i \in 1..Len(stream) :
          \E w \in rows :
              /\ w.id = stream[i].db_id
              /\ <<w.patient_id, w.timestamp>> = EntryKey(stream[i])

\* The publish of a reading failed after its commit and the retry of the same
\* reading was refused by the store: one row, no entry, no key in the cache.
C32_Witness ==
    \E r1, r2 \in Requests :
        /\ r1 # r2 /\ KeyOf(r1) = KeyOf(r2)
        /\ PublishFailed(r1)
        /\ Done(r2) /\ reqs[r2].status = HTTP_SERVER_ERROR /\ reqs[r2].cause = "unique"
        /\ Cardinality(RowsFor(KeyOf(r1))) = 1
        /\ EntriesFor(KeyOf(r1)) = {}
        /\ Cardinality(rows) > Len(stream)

\* The ids of the patient's entries process_event was called with, in the
\* order of the stream, which is the order a single worker takes them in.
InsertedIds(p) ==
    SelectSeq([i \in 1..Len(stream) |-> i],
              LAMBDA i : invoked[i] >= 1 /\ stream[i].patient_id = p)

\* The readings add_reading was called with for the patient, in order.
InsertionSequence(p) ==
    [k \in 1..Len(InsertedIds(p)) |-> Observed(stream[InsertedIds(p)[k]])]

IsSuffix(a, b) ==
    /\ Len(a) <= Len(b)
    /\ a = SubSeq(b, Len(b) - Len(a) + 1, Len(b))

\* C33: for every patient, after any sequence of insertions, in order or not,
\* each window is a contiguous suffix of the patient's insertion sequence, the
\* 30 s window is a suffix of the 120 s window and that one of the 600 s
\* window, so that count_30s <= count_2m <= count_10m.
C33_WindowsAreNestedSuffixes ==
    \A p \in DOMAIN patient_states[Solo] :
        LET st == patient_states[Solo][p] IN
        /\ IsSuffix(st.w_10m, InsertionSequence(p))
        /\ IsSuffix(st.w_2m, st.w_10m)
        /\ IsSuffix(st.w_30s, st.w_2m)
        /\ get_aggregates(st.w_30s).count <= get_aggregates(st.w_2m).count
        /\ get_aggregates(st.w_2m).count <= get_aggregates(st.w_10m).count

\* After an insertion older than the one before it, the 30 s window holds
\* fewer readings than the 600 s window, which still holds the older one.
C33_Witness ==
    \E p \in DOMAIN patient_states[Solo] :
        LET st == patient_states[Solo][p]
            ins == InsertionSequence(p) IN
        /\ Len(st.w_30s) < Len(st.w_10m)
        /\ \E k \in 1..(Len(st.w_10m) - 1) :
              st.w_10m[k + 1].timestamp.sec < st.w_10m[k].timestamp.sec
        /\ Len(ins) = MaxReadings

====
